---------------------------- MODULE Spec2Model ----------------------------
(***************************************************************************)
(* Model of the SHA-3 / SHAKE sponge of Sources/CNESHAKE128                *)
(* (CSHAKE128_sha3.c, CSHAKE128_sha3.h): the Keccak-f[1600] permutation,   *)
(* the context sha3_ctx_t and the operations init, update, final,          *)
(* shake_xof and shake_read.                                               *)
(*                                                                         *)
(* A uint64_t lane is the set of its one-bits (bit 0 the least             *)
(* significant), so XOR, AND, NOT, shifts and rotations are exact on all   *)
(* 64 bits.  The union st of the context is the function q : 0..24 -> lane;*)
(* on the little-endian build byte b[k] of the union is bits               *)
(* 8*(k%8) .. 8*(k%8)+7 of q[k \div 8].                                    *)
(***************************************************************************)
EXTENDS Integers, Sequences, FiniteSets, TLC

\* ------------------------------------------------------------------ bounds
\* Total number of bytes absorbed into one context.
MaxAbsorb == 3
\* Longest input of a single update or one-shot call.
MaxChunk == 2
\* Total number of bytes squeezed from one context.
MaxRead == 4
\* Longest single shake_read.
MaxReadLen == 3

\* Byte values the caller passes in.
Bytes == {1, 163}

\* Output lengths with 0 < 200 - 2L <= 200: the two SHAKE settings, the SHA-3
\* digest sizes, 99, whose rate of 2 bytes puts block boundaries in reach, and
\* 0, whose rate of 200 bytes is the whole state.
Lens == {0, 16, 28, 32, 48, 64, 99}

\* Output lengths whose rate 200 - 2L is not in 1..200.
InvalidLens == {100}

\* ------------------------------------------------------- 64-bit lane words
\* #define KECCAKF_ROUNDS 24
KECCAKF_ROUNDS == 24

Bit64 == 0..63

\* uint64_t q[25]
Lanes == [0..24 -> SUBSET Bit64]

\* x ^ y
XOR64(x, y) == (x \ y) \cup (y \ x)

\* x & y
AND64(x, y) == x \cap y

\* ~x
NOT64(x) == Bit64 \ x

\* x << y and x >> y on uint64_t: bits shifted out are lost
SHL64(x, y) == {i + y : i \in x \cap (0..(63 - y))}

SHR64(x, y) == {i - y : i \in x \cap (y..63)}

\* #define ROTL64(x, y) (((x) << (y)) | ((x) >> (64 - (y))))
ROTL64(x, y) == SHL64(x, y) \cup SHR64(x, 64 - y)

\* const uint64_t keccakf_rndc[24], each constant as the set of its one-bits
keccakf_rndc ==
  << {0},                              \* 0x0000000000000001
     {1, 7, 15},                       \* 0x0000000000008082
     {1, 3, 7, 15, 63},                \* 0x800000000000808a
     {15, 31, 63},                     \* 0x8000000080008000
     {0, 1, 3, 7, 15},                 \* 0x000000000000808b
     {0, 31},                          \* 0x0000000080000001
     {0, 7, 15, 31, 63},               \* 0x8000000080008081
     {0, 3, 15, 63},                   \* 0x8000000000008009
     {1, 3, 7},                        \* 0x000000000000008a
     {3, 7},                           \* 0x0000000000000088
     {0, 3, 15, 31},                   \* 0x0000000080008009
     {1, 3, 31},                       \* 0x000000008000000a
     {0, 1, 3, 7, 15, 31},             \* 0x000000008000808b
     {0, 1, 3, 7, 63},                 \* 0x800000000000008b
     {0, 3, 7, 15, 63},                \* 0x8000000000008089
     {0, 1, 15, 63},                   \* 0x8000000000008003
     {1, 15, 63},                      \* 0x8000000000008002
     {7, 63},                          \* 0x8000000000000080
     {1, 3, 15},                       \* 0x000000000000800a
     {1, 3, 31, 63},                   \* 0x800000008000000a
     {0, 7, 15, 31, 63},               \* 0x8000000080008081
     {7, 15, 63},                      \* 0x8000000000008080
     {0, 31},                          \* 0x0000000080000001
     {3, 15, 31, 63} >>                \* 0x8000000080008008

\* const int keccakf_rotc[24]
keccakf_rotc ==
  << 1,  3,  6,  10, 15, 21, 28, 36, 45, 55, 2,  14,
     27, 41, 56, 8,  25, 43, 62, 18, 39, 61, 20, 44 >>

\* const int keccakf_piln[24]
keccakf_piln ==
  << 10, 7,  11, 17, 18, 3, 5,  16, 8,  21, 24, 4,
     15, 23, 19, 13, 12, 2, 20, 14, 22, 9,  6,  1 >>

\* ------------------------------------------------------------ permutation
\* Theta, first loop: bc[i] = st[i] ^ st[i + 5] ^ st[i + 10] ^ st[i + 15] ^ st[i + 20]
ThetaParity(st) ==
  [i \in 0..4 |->
     XOR64(XOR64(XOR64(XOR64(st[i], st[i + 5]), st[i + 10]), st[i + 15]), st[i + 20])]

\* Theta, second loop, the body for one i:
\*   t = bc[(i + 4) % 5] ^ ROTL64(bc[(i + 1) % 5], 1);
\*   for (j = 0; j < 25; j += 5) st[j + i] ^= t;
ThetaColumn(st, bc, i) ==
  LET t == XOR64(bc[(i + 4) % 5], ROTL64(bc[(i + 1) % 5], 1))
  IN  [st EXCEPT ![i]      = XOR64(@, t), ![i + 5]  = XOR64(@, t),
                 ![i + 10] = XOR64(@, t), ![i + 15] = XOR64(@, t),
                 ![i + 20] = XOR64(@, t)]

\* Theta, second loop, after its first n iterations.
RECURSIVE ThetaLoop(_, _, _)
ThetaLoop(st, bc, n) ==
  IF n = 0 THEN st ELSE ThetaColumn(ThetaLoop(st, bc, n - 1), bc, n - 1)

Theta(st) == ThetaLoop(st, ThetaParity(st), 5)

\* One iteration of the Rho Pi loop without the save "bc[0] = st[j]": t takes
\* the value of st[j] after it has been overwritten.
RhoPiStepNoSave(p, i) ==
  LET j  == keccakf_piln[i + 1]
      st == [p[1] EXCEPT ![j] = ROTL64(p[2], keccakf_rotc[i + 1])]
  IN  <<st, st[j]>>

\* Rho Pi, one iteration of the loop on the pair p = <<st, t>>:
\*   j = keccakf_piln[i]; bc[0] = st[j]; st[j] = ROTL64(t, keccakf_rotc[i]); t = bc[0];
RhoPiStep(p, i) ==
  LET j == keccakf_piln[i + 1]
  IN  <<[p[1] EXCEPT ![j] = ROTL64(p[2], keccakf_rotc[i + 1])], p[1][j]>>

\* Rho Pi, iterations lo .. hi - 1 of the loop, in order, on the pair p.  (The
\* range is halved, and the first half evaluated before the second starts, only
\* to keep the evaluation shallow.)
RECURSIVE RhoPiLoop(_, _, _)
RhoPiLoop(p, lo, hi) ==
  IF hi <= lo THEN p
  ELSE IF hi = lo + 1 THEN RhoPiStep(p, lo)
  ELSE LET mid  == (lo + hi) \div 2
           half == RhoPiLoop(p, lo, mid)
       IN  IF half[1] \in Lanes THEN RhoPiLoop(half, mid, hi) ELSE half

\* t = st[1]; for (i = 0; i < 24; i++) { ... }
RhoPi(st) == RhoPiLoop(<<st, st[1]>>, 0, 24)[1]

\* One iteration of the second inner loop of Chi reading the row in place,
\* st[j + ...] where the code reads the copy bc[...].
ChiStepInPlace(st, bc, j, i) ==
  [st EXCEPT ![j + i] =
     XOR64(@, AND64(NOT64(st[j + ((i + 1) % 5)]), st[j + ((i + 2) % 5)]))]

\* Chi, one iteration of the second inner loop, for the row at j and its copy bc:
\*   st[j + i] ^= (~bc[(i + 1) % 5]) & bc[(i + 2) % 5];
ChiStep(st, bc, j, i) ==
  [st EXCEPT ![j + i] = XOR64(@, AND64(NOT64(bc[(i + 1) % 5]), bc[(i + 2) % 5]))]

\* Chi, the body of the outer loop for the row at j:
\*   for (i = 0; i < 5; i++) bc[i] = st[j + i];
\*   for (i = 0; i < 5; i++) st[j + i] ^= ...;
ChiRow(st, j) ==
  LET bc == [i \in 0..4 |-> st[j + i]]
  IN  ChiStep(ChiStep(ChiStep(ChiStep(ChiStep(st, bc, j, 0), bc, j, 1), bc, j, 2),
                      bc, j, 3), bc, j, 4)

\* Chi: for (j = 0; j < 25; j += 5) { ... }
Chi(st) == ChiRow(ChiRow(ChiRow(ChiRow(ChiRow(st, 0), 5), 10), 15), 20)

\* Iota with the constant of round 0 in every round: st[0] ^= keccakf_rndc[0]
IotaFirstConstant(st, r) == [st EXCEPT ![0] = XOR64(st[0], keccakf_rndc[1])]

\* Iota: st[0] ^= keccakf_rndc[r]
Iota(st, r) == [st EXCEPT ![0] = XOR64(st[0], keccakf_rndc[r + 1])]

\* One round of the loop "for (r = 0; r < KECCAKF_ROUNDS; r++)".
Round(st, r) == Iota(Chi(RhoPi(Theta(st))), r)

\* Rounds lo .. hi - 1 of the loop, in order.  (Halved as in RhoPiLoop.)
RECURSIVE Rounds(_, _, _)
Rounds(st, lo, hi) ==
  IF hi <= lo THEN st
  ELSE IF hi = lo + 1 THEN Round(st, lo)
  ELSE LET mid  == (lo + hi) \div 2
           half == Rounds(st, lo, mid)
       IN  IF half \in Lanes THEN Rounds(half, mid, hi) ELSE half

\* void CSHAKE128_sha3_keccakf(uint64_t st[25]), little-endian build
CSHAKE128_sha3_keccakf(st) == Rounds(st, 0, KECCAKF_ROUNDS)


\* ------------------------------------------------------- byte view, st.b[]
\* The one-bits of a byte value (uint8_t as an integer 0..255).
ByteBits(v) == {i \in 0..7 : (v \div (2 ^ i)) % 2 = 1}

\* The byte value with the given one-bits.
ByteVal(s) ==
    (IF 0 \in s THEN 1 ELSE 0) + (IF 1 \in s THEN 2 ELSE 0)
  + (IF 2 \in s THEN 4 ELSE 0) + (IF 3 \in s THEN 8 ELSE 0)
  + (IF 4 \in s THEN 16 ELSE 0) + (IF 5 \in s THEN 32 ELSE 0)
  + (IF 6 \in s THEN 64 ELSE 0) + (IF 7 \in s THEN 128 ELSE 0)

\* uint8_t b[200]: the indices that lie inside the union
InBounds(k) == k \in 0..199

\* st.b[k], read: byte k % 8 of lane k / 8, least significant byte first
LoadByte(st, k) == ByteVal({i \in 0..7 : (8 * (k % 8) + i) \in st[k \div 8]})

\* st.b[k] ^= v
XorByte(st, k, v) ==
  [st EXCEPT ![k \div 8] = XOR64(@, {8 * (k % 8) + i : i \in ByteBits(v)})]

\* st.b[k] ^= v where k may lie outside b[200]: the store is undefined behaviour;
\* in the outcome that does not trap it lands outside st and leaves st as it was.
StoreXor(st, k, v) == IF InBounds(k) THEN XorByte(st, k, v) ELSE st

\* ------------------------------------- keccakf on a big-endian build
\* x | y on lanes
OR64(x, y) == x \cup y

\* The conversion before the rounds, for lane i of the bytes mem of the state:
\*   v = (uint8_t *) &st[i];
\*   st[i] = ((uint64_t) v[0]) | (((uint64_t) v[1]) << 8) | ... | (v[7] << 56)
BigEndianLoad(mem, i) ==
  OR64(OR64(OR64(SHL64(ByteBits(mem[8 * i]), 0),
                 SHL64(ByteBits(mem[8 * i + 1]), 8)),
            OR64(SHL64(ByteBits(mem[8 * i + 2]), 16),
                 SHL64(ByteBits(mem[8 * i + 3]), 24))),
       OR64(OR64(SHL64(ByteBits(mem[8 * i + 4]), 32),
                 SHL64(ByteBits(mem[8 * i + 5]), 40)),
            OR64(SHL64(ByteBits(mem[8 * i + 6]), 48),
                 SHL64(ByteBits(mem[8 * i + 7]), 56))))

\* The conversion after the rounds with the bytes of a lane stored most
\* significant first: v[k] = (t >> (56 - 8 * k)) & 0xFF.
BigEndianStoreReversed(t, k) == ByteVal(AND64(SHR64(t, 56 - 8 * k), 0..7))

\* The conversion after the rounds, byte k of lane value t:
\*   v[k] = (t >> (8 * k)) & 0xFF
BigEndianStore(t, k) == ByteVal(AND64(SHR64(t, 8 * k), 0..7))

\* void CSHAKE128_sha3_keccakf(uint64_t st[25]) where __BYTE_ORDER__ is not
\* little-endian, on the 200 bytes mem of the state; the result is the 200 bytes
\* it leaves.
KeccakfBigEndian(mem) ==
  LET loaded == [i \in 0..24 |-> BigEndianLoad(mem, i)]
      st     == Rounds(loaded, 0, KECCAKF_ROUNDS)
  IN  [k \in 0..199 |-> BigEndianStore(st[k \div 8], k % 8)]

\* ---------------------------------------------------------------- context
\* for (i = 0; i < 25; i++) c->st.q[i] = 0;
ZeroState == [i \in 0..24 |-> {}]

\* CSHAKE128_sha3_init with the rate taken as 200 - mdlen, the capacity counted
\* once instead of twice.
InitSingleCapacity(mdlen) ==
  [ctx |-> [st |-> ZeroState, mdlen |-> mdlen, rsiz |-> 200 - mdlen, pt |-> 0],
   ret |-> 1]

\* int CSHAKE128_sha3_init(sha3_ctx_t *c, int mdlen)
CSHAKE128_sha3_init(mdlen) ==
  [ctx |-> [st |-> ZeroState, mdlen |-> mdlen, rsiz |-> 200 - 2 * mdlen, pt |-> 0],
   ret |-> 1]

\* The update loop with the test "j > c->rsiz": the permutation runs one byte
\* late.
RECURSIVE UpdateLoopLate(_, _, _)
UpdateLoopLate(c, data, n) ==
  IF n = 0 THEN [st |-> c.st, j |-> c.pt, np |-> 0]
  ELSE LET p   == UpdateLoopLate(c, data, n - 1)
           st1 == XorByte(p.st, p.j, data[n])
       IN  IF p.j + 1 > c.rsiz
           THEN [st |-> CSHAKE128_sha3_keccakf(st1), j |-> 0, np |-> p.np + 1]
           ELSE [st |-> st1, j |-> p.j + 1, np |-> p.np]

\* The loop of CSHAKE128_sha3_update without "j = 0" after the permutation: j
\* keeps growing past the rate.
RECURSIVE UpdateLoopNoReset(_, _, _)
UpdateLoopNoReset(c, data, n) ==
  IF n = 0 THEN [st |-> c.st, j |-> c.pt, np |-> 0]
  ELSE LET p   == UpdateLoopNoReset(c, data, n - 1)
           st1 == StoreXor(p.st, p.j, data[n])
       IN  IF p.j + 1 >= c.rsiz
           THEN [st |-> CSHAKE128_sha3_keccakf(st1), j |-> p.j + 1, np |-> p.np + 1]
           ELSE [st |-> st1, j |-> p.j + 1, np |-> p.np]

\* The loop of CSHAKE128_sha3_update after its first n bytes: the state, j and
\* the number of permutation calls made.
\*   c->st.b[j++] ^= data[i]; if (j >= c->rsiz) { keccakf(c->st.q); j = 0; }
RECURSIVE UpdateLoop(_, _, _)
UpdateLoop(c, data, n) ==
  IF n = 0 THEN [st |-> c.st, j |-> c.pt, np |-> 0]
  ELSE LET p   == UpdateLoop(c, data, n - 1)
           st1 == XorByte(p.st, p.j, data[n])
       IN  IF p.j + 1 >= c.rsiz
           THEN [st |-> CSHAKE128_sha3_keccakf(st1), j |-> 0, np |-> p.np + 1]
           ELSE [st |-> st1, j |-> p.j + 1, np |-> p.np]

\* CSHAKE128_sha3_update with "j = 0" in place of "j = c->pt": every call starts
\* at the head of the block.
UpdateFromBlockStart(c, data) ==
  LET r == UpdateLoop([c EXCEPT !.pt = 0], data, Len(data))
  IN  [ctx |-> [c EXCEPT !.st = r.st, !.pt = r.j], np |-> r.np, ret |-> 1]

\* CSHAKE128_sha3_update with "c->pt += len" in place of "c->pt = j": the
\* position is not wrapped at the rate.
UpdateNoWrap(c, data) ==
  LET r == UpdateLoop(c, data, Len(data))
  IN  [ctx |-> [c EXCEPT !.st = r.st, !.pt = c.pt + Len(data)], np |-> r.np, ret |-> 1]

\* int CSHAKE128_sha3_update(sha3_ctx_t *c, const void *data, size_t len)
CSHAKE128_sha3_update(c, data) ==
  LET r == UpdateLoop(c, data, Len(data))
  IN  [ctx |-> [c EXCEPT !.st = r.st, !.pt = r.j], np |-> r.np, ret |-> 1]

\* The padding of final with the closing bit stored at b[rsiz] instead of
\* b[rsiz - 1].
FinalPadAtRate(c) == StoreXor(StoreXor(c.st, c.pt, 6), c.rsiz, 128)

\* The state of CSHAKE128_sha3_final just before its permutation call:
\*   c->st.b[c->pt] ^= 0x06; c->st.b[c->rsiz - 1] ^= 0x80;
FinalPad(c) == StoreXor(StoreXor(c.st, c.pt, 6), c.rsiz - 1, 128)

\* int CSHAKE128_sha3_final(void *md, sha3_ctx_t *c)
CSHAKE128_sha3_final(c) ==
  LET pad == FinalPad(c)
      st2 == CSHAKE128_sha3_keccakf(pad)
  IN  [ctx |-> [c EXCEPT !.st = st2],
       md  |-> [i \in 1..c.mdlen |-> LoadByte(st2, i - 1)],
       pre |-> pad, np |-> 1, ret |-> 1]

\* The padding of xof with the SHA-3 suffix 0x06 in place of 0x1F.
XofPadSha3Suffix(c) == StoreXor(StoreXor(c.st, c.pt, 6), c.rsiz - 1, 128)

\* The state of CSHAKE128_shake_xof just before its permutation call:
\*   c->st.b[c->pt] ^= 0x1F; c->st.b[c->rsiz - 1] ^= 0x80;
XofPad(c) == StoreXor(StoreXor(c.st, c.pt, 31), c.rsiz - 1, 128)

\* void CSHAKE128_shake_xof(sha3_ctx_t *c)
CSHAKE128_shake_xof(c) ==
  LET pad == XofPad(c)
      st2 == CSHAKE128_sha3_keccakf(pad)
  IN  [ctx |-> [c EXCEPT !.st = st2, !.pt = 0], pre |-> pad, np |-> 1]

\* The read loop with the test "j > c->rsiz": b[rsiz] is delivered before the
\* permutation runs.
RECURSIVE ReadLoopLate(_, _)
ReadLoopLate(c, n) ==
  IF n = 0 THEN [st |-> c.st, j |-> c.pt, out |-> <<>>, np |-> 0]
  ELSE LET p    == ReadLoopLate(c, n - 1)
           full == p.j > c.rsiz
           st1  == IF full THEN CSHAKE128_sha3_keccakf(p.st) ELSE p.st
           j1   == IF full THEN 0 ELSE p.j
       IN  [st |-> st1, j |-> j1 + 1, out |-> Append(p.out, LoadByte(st1, j1)),
            np |-> p.np + (IF full THEN 1 ELSE 0)]

\* The loop of CSHAKE128_shake_read with the test of j moved behind the copy:
\* the permutation runs as soon as the last byte of a block has been copied.
\*   out[i] = c->st.b[j++];  if (j >= c->rsiz) { keccakf(c->st.q); j = 0; }
RECURSIVE ReadLoopEager(_, _)
ReadLoopEager(c, n) ==
  IF n = 0 THEN [st |-> c.st, j |-> c.pt, out |-> <<>>, np |-> 0]
  ELSE LET p    == ReadLoopEager(c, n - 1)
           full == p.j + 1 >= c.rsiz
       IN  [st |-> IF full THEN CSHAKE128_sha3_keccakf(p.st) ELSE p.st,
            j |-> IF full THEN 0 ELSE p.j + 1,
            out |-> Append(p.out, LoadByte(p.st, p.j)),
            np |-> p.np + (IF full THEN 1 ELSE 0)]

\* The loop of CSHAKE128_shake_read after its first n bytes: the state, j, the
\* bytes written to out and the number of permutation calls made.
\*   if (j >= c->rsiz) { keccakf(c->st.q); j = 0; }  out[i] = c->st.b[j++];
RECURSIVE ReadLoop(_, _)
ReadLoop(c, n) ==
  IF n = 0 THEN [st |-> c.st, j |-> c.pt, out |-> <<>>, np |-> 0]
  ELSE LET p    == ReadLoop(c, n - 1)
           full == p.j >= c.rsiz
           st1  == IF full THEN CSHAKE128_sha3_keccakf(p.st) ELSE p.st
           j1   == IF full THEN 0 ELSE p.j
       IN  [st |-> st1, j |-> j1 + 1, out |-> Append(p.out, LoadByte(st1, j1)),
            np |-> p.np + (IF full THEN 1 ELSE 0)]

\* CSHAKE128_shake_read with "j = 0" in place of "j = c->pt": every call starts
\* at the head of the block.
ReadFromBlockStart(c, len) ==
  LET r == ReadLoop([c EXCEPT !.pt = 0], len)
  IN  [ctx |-> [c EXCEPT !.st = r.st, !.pt = r.j], out |-> r.out, np |-> r.np]

\* void CSHAKE128_shake_read(sha3_ctx_t *c, void *out, size_t len)
CSHAKE128_shake_read(c, len) ==
  LET r == ReadLoop(c, len)
  IN  [ctx |-> [c EXCEPT !.st = r.st, !.pt = r.j], out |-> r.out, np |-> r.np]

\* The one-shot function without its update call: the input is never absorbed.
Sha3WithoutUpdate(in, mdlen) ==
  CSHAKE128_sha3_final(CSHAKE128_sha3_init(mdlen).ctx)

\* void *CSHAKE128_sha3(const void *in, size_t inlen, void *md, int mdlen):
\* init, update and final on a context of its own; md is what it returns.
CSHAKE128_sha3(in, mdlen) ==
  LET c0 == CSHAKE128_sha3_init(mdlen).ctx
      c1 == CSHAKE128_sha3_update(c0, in).ctx
  IN  CSHAKE128_sha3_final(c1)

\* shake128_init with the output length of shake256_init.
Shake128InitWith32 == CSHAKE128_sha3_init(32)

\* int CSHAKE128_shake128_init(sha3_ctx_t *ctx)
CSHAKE128_shake128_init == CSHAKE128_sha3_init(16)

\* int CSHAKE128_shake256_init(sha3_ctx_t *ctx)
CSHAKE128_shake256_init == CSHAKE128_sha3_init(32)

\* int CSHAKE128_shake_update(sha3_ctx_t *ctx, const void *data, size_t len)
CSHAKE128_shake_update(c, data) == CSHAKE128_sha3_update(c, data)

\* The outcomes of the two padding stores of final and xof: defined when both
\* indices lie in b[200]; otherwise (rsiz - 1 < 0 after an init whose rate is not
\* positive) the store is undefined behaviour, and the build either traps or
\* stores outside st.
PadOutcomes(c) ==
  IF InBounds(c.pt) /\ InBounds(c.rsiz - 1) THEN {"defined"} ELSE {"trap", "stray"}

\* ------------------------------------------- CNIOSecurityShims (shims.c)
\* A wrapper is modelled by the one libsodium call it makes: the function called
\* and the argument list, as a function of the wrapper's own parameters.
\* Pointers are addresses, lengths and counters are integers.
CNIOSecurityShims_STREAM_salsa20(cp, m, mlen, n, ic, k) ==
  [fn |-> "crypto_stream_salsa20_xor_ic", args |-> <<cp, m, mlen, n, ic, k>>]

CNIOSecurityShims_STREAM_chacha20(cp, m, mlen, n, ic, k) ==
  [fn |-> "crypto_stream_chacha20_xor_ic", args |-> <<cp, m, mlen, n, ic, k>>]

CNIOSecurityShims_STREAM_chacha20_ietf(cp, m, mlen, n, ic, k) ==
  [fn |-> "crypto_stream_chacha20_ietf_xor_ic", args |-> <<cp, m, mlen, n, ic, k>>]

CNIOSecurityShims_STREAM_xchacha20(cp, m, mlen, n, ic, k) ==
  [fn |-> "crypto_stream_xchacha20_xor_ic", args |-> <<cp, m, mlen, n, ic, k>>]

CNIOSecurityShims_AEAD_chacha20poly1305_enc(cp, clen_p, m, mlen, ad, adlen, nsec, npub, k) ==
  [fn   |-> "crypto_aead_chacha20poly1305_encrypt",
   args |-> <<cp, clen_p, m, mlen, ad, adlen, nsec, npub, k>>]

CNIOSecurityShims_AEAD_chacha20poly1305_dec(m, mlen_p, nsec, cp, clen, ad, adlen, npub, k) ==
  [fn   |-> "crypto_aead_chacha20poly1305_decrypt",
   args |-> <<m, mlen_p, nsec, cp, clen, ad, adlen, npub, k>>]

CNIOSecurityShims_AEAD_chacha20poly1305_ietf_enc(cp, clen_p, m, mlen, ad, adlen, nsec, npub, k) ==
  [fn   |-> "crypto_aead_chacha20poly1305_ietf_encrypt",
   args |-> <<cp, clen_p, m, mlen, ad, adlen, nsec, npub, k>>]

CNIOSecurityShims_AEAD_chacha20poly1305_ietf_dec(m, mlen_p, nsec, cp, clen, ad, adlen, npub, k) ==
  [fn   |-> "crypto_aead_chacha20poly1305_ietf_decrypt",
   args |-> <<m, mlen_p, nsec, cp, clen, ad, adlen, npub, k>>]

CNIOSecurityShims_AEAD_xchacha20poly1305_ietf_enc(cp, clen_p, m, mlen, ad, adlen, nsec, npub, k) ==
  [fn   |-> "crypto_aead_xchacha20poly1305_ietf_encrypt",
   args |-> <<cp, clen_p, m, mlen, ad, adlen, nsec, npub, k>>]

CNIOSecurityShims_AEAD_xchacha20poly1305_ietf_dec(m, mlen_p, nsec, cp, clen, ad, adlen, npub, k) ==
  [fn   |-> "crypto_aead_xchacha20poly1305_ietf_decrypt",
   args |-> <<m, mlen_p, nsec, cp, clen, ad, adlen, npub, k>>]

\* return crypto_aead_aes256gcm_encrypt(c, clen_p, mlen, mlen, ad, adlen, nsec, npub, k);
CNIOSecurityShims_AEAD_aes256gcm_enc(cp, clen_p, m, mlen, ad, adlen, nsec, npub, k) ==
  [fn   |-> "crypto_aead_aes256gcm_encrypt",
   args |-> <<cp, clen_p, mlen, mlen, ad, adlen, nsec, npub, k>>]

CNIOSecurityShims_AEAD_aes256gcm_dec(m, mlen_p, nsec, cp, clen, ad, adlen, npub, k) ==
  [fn   |-> "crypto_aead_aes256gcm_decrypt",
   args |-> <<m, mlen_p, nsec, cp, clen, ad, adlen, npub, k>>]

\* The stream wrappers, the AEAD encrypt wrappers and the AEAD decrypt wrappers.
StreamShims == {"STREAM_salsa20", "STREAM_chacha20", "STREAM_chacha20_ietf",
                "STREAM_xchacha20"}

EncShims == {"AEAD_chacha20poly1305_enc", "AEAD_chacha20poly1305_ietf_enc",
             "AEAD_xchacha20poly1305_ietf_enc", "AEAD_aes256gcm_enc"}

DecShims == {"AEAD_chacha20poly1305_dec", "AEAD_chacha20poly1305_ietf_dec",
             "AEAD_xchacha20poly1305_ietf_dec", "AEAD_aes256gcm_dec"}

\* The call stream wrapper w makes for the parameter list p.
StreamCall(w, p) ==
  CASE w = "STREAM_salsa20" ->
         CNIOSecurityShims_STREAM_salsa20(p[1], p[2], p[3], p[4], p[5], p[6])
    [] w = "STREAM_chacha20" ->
         CNIOSecurityShims_STREAM_chacha20(p[1], p[2], p[3], p[4], p[5], p[6])
    [] w = "STREAM_chacha20_ietf" ->
         CNIOSecurityShims_STREAM_chacha20_ietf(p[1], p[2], p[3], p[4], p[5], p[6])
    [] w = "STREAM_xchacha20" ->
         CNIOSecurityShims_STREAM_xchacha20(p[1], p[2], p[3], p[4], p[5], p[6])

\* The call AEAD encrypt wrapper w makes for the parameter list p.
EncCall(w, p) ==
  CASE w = "AEAD_chacha20poly1305_enc" ->
         CNIOSecurityShims_AEAD_chacha20poly1305_enc(
           p[1], p[2], p[3], p[4], p[5], p[6], p[7], p[8], p[9])
    [] w = "AEAD_chacha20poly1305_ietf_enc" ->
         CNIOSecurityShims_AEAD_chacha20poly1305_ietf_enc(
           p[1], p[2], p[3], p[4], p[5], p[6], p[7], p[8], p[9])
    [] w = "AEAD_xchacha20poly1305_ietf_enc" ->
         CNIOSecurityShims_AEAD_xchacha20poly1305_ietf_enc(
           p[1], p[2], p[3], p[4], p[5], p[6], p[7], p[8], p[9])
    [] w = "AEAD_aes256gcm_enc" ->
         CNIOSecurityShims_AEAD_aes256gcm_enc(
           p[1], p[2], p[3], p[4], p[5], p[6], p[7], p[8], p[9])

\* The call AEAD decrypt wrapper w makes for the parameter list p.
DecCall(w, p) ==
  CASE w = "AEAD_chacha20poly1305_dec" ->
         CNIOSecurityShims_AEAD_chacha20poly1305_dec(
           p[1], p[2], p[3], p[4], p[5], p[6], p[7], p[8], p[9])
    [] w = "AEAD_chacha20poly1305_ietf_dec" ->
         CNIOSecurityShims_AEAD_chacha20poly1305_ietf_dec(
           p[1], p[2], p[3], p[4], p[5], p[6], p[7], p[8], p[9])
    [] w = "AEAD_xchacha20poly1305_ietf_dec" ->
         CNIOSecurityShims_AEAD_xchacha20poly1305_ietf_dec(
           p[1], p[2], p[3], p[4], p[5], p[6], p[7], p[8], p[9])
    [] w = "AEAD_aes256gcm_dec" ->
         CNIOSecurityShims_AEAD_aes256gcm_dec(
           p[1], p[2], p[3], p[4], p[5], p[6], p[7], p[8], p[9])

\* The addresses the caller passes for the pointer parameters, by parameter.
Addr == [c |-> 4096, m |-> 8192, n |-> 12288, k |-> 16384, ad |-> 20480,
         nsec |-> 24576, npub |-> 28672, clen_p |-> 32768, mlen_p |-> 36864]

\* The values the caller passes for the length parameters mlen, clen and adlen.
Lengths == {0, 1, 16}

\* The values the caller passes for the initial counter ic.
Counters == {0, 1}

\* The results a libsodium call returns.
SodiumResults == {0, -1}

\* ------------------------------------------------------------ the caller
\* In the actions below "\E r \in {F(..)}" names the result r of the one call
\* F(..) an action makes.
\* Inputs of one update or one-shot call.
Chunks == UNION {[1..k -> Bytes] : k \in 0..MaxChunk}

\* The input of an update issued after final or xof.
LateChunks == {<<163>>}

\* The length of a shake_read issued before xof.
EarlyReads == {1}

\* The output lengths of the contexts shake_update is called on: SHAKE128 and
\* the length whose rate is 2, where every update crosses blocks.
ShakeUpdateLens == {16, 99}

\* The length of the one read that takes a whole known-answer output at once.
KatReads == {16}

VARIABLES
  c,         \* the caller's sha3_ctx_t
  phase,     \* where the call sequence on c stands: "none" (no init yet),
             \*   "absorbing", "finalized", "squeezing", "misused" (a call out of
             \*   the legal order was made), "trapped" (undefined behaviour trapped)
  op,        \* the last call made
  ret,       \* its return value (0 for a void function)
  absorbed,  \* all bytes passed to update since init, in order (after a
             \*   one-shot call: the bytes it passed to update)
  md,        \* the digest buffer as last written
  out,       \* all bytes delivered by shake_read since xof, in order
  nperm,     \* permutation calls made on c since init
  pre,       \* the state just before the permutation call of the last final / xof
  sq0,       \* the state as shake_xof left it
  shim       \* the last CNIOSecurityShims wrapper call: the wrapper, its
             \*   parameters, the libsodium call it made, the result of that
             \*   call and what the wrapper returned

vars == <<c, phase, op, ret, absorbed, md, out, nperm, pre, sq0, shim>>

\* No wrapper has been called.
NoCall == [wrapper |-> "none", params |-> <<>>,
           call |-> [fn |-> "none", args |-> <<>>], result |-> 0, ret |-> 0]

\* sha3_ctx_t before any init; its fields have not been written yet.
NoContext == [st |-> ZeroState, mdlen |-> 0, rsiz |-> 0, pt |-> 0]

Init ==
  /\ c = NoContext
  /\ phase = "none"
  /\ op = "none"
  /\ ret = 0
  /\ absorbed = <<>>
  /\ md = <<>>
  /\ out = <<>>
  /\ nperm = 0
  /\ pre = ZeroState
  /\ sq0 = ZeroState
  /\ shim = NoCall

\* A call of CSHAKE128_sha3_init(&c, L), on a new context or on a used one.
Call_sha3_init(L) ==
  /\ phase # "trapped"
  /\ \E r \in {CSHAKE128_sha3_init(L)} :
         /\ c' = r.ctx
         /\ ret' = r.ret
  /\ phase' = "absorbing"
  /\ op' = "init"
  /\ absorbed' = <<>>
  /\ md' = <<>>
  /\ out' = <<>>
  /\ nperm' = 0
  /\ pre' = ZeroState
  /\ sq0' = ZeroState
  /\ UNCHANGED shim

\* A call of CSHAKE128_sha3_update(&c, data, len).  The code has no guard: the
\* call is also made after final or xof, where it is outside the legal order.
\* (On a context whose rate is not in 1..200 one byte in all is absorbed, and
\* one byte in all is read: there every byte costs a permutation.)
Call_sha3_update(data) ==
  /\ \/ /\ phase = "absorbing"
        /\ data \in Chunks
        /\ Len(absorbed) + Len(data) <= (IF c.rsiz \in 1..200 THEN MaxAbsorb ELSE 1)
     \/ /\ phase \in {"finalized", "squeezing"}
        /\ data \in LateChunks
  /\ \E r \in {CSHAKE128_sha3_update(c, data)} :
         /\ c' = r.ctx
         /\ ret' = r.ret
         /\ nperm' = nperm + r.np
  /\ phase' = IF phase = "absorbing" THEN "absorbing" ELSE "misused"
  /\ op' = "update"
  /\ absorbed' = absorbed \o data
  /\ UNCHANGED <<md, out, pre, sq0>>
  /\ UNCHANGED shim

\* A call of CSHAKE128_sha3_final(md, &c).
Call_sha3_final ==
  /\ phase = "absorbing"
  /\ \E outcome \in PadOutcomes(c) :
       IF outcome = "trap"
       THEN /\ phase' = "trapped"
            /\ UNCHANGED <<c, ret, md, nperm, pre>>
       ELSE \E r \in {CSHAKE128_sha3_final(c)} :
                /\ c' = r.ctx
                /\ ret' = r.ret
                /\ md' = r.md
                /\ nperm' = nperm + r.np
                /\ pre' = r.pre
                /\ phase' = "finalized"
  /\ op' = "final"
  /\ UNCHANGED <<absorbed, out, sq0>>
  /\ UNCHANGED shim

\* A call of CSHAKE128_shake_xof(&c).
Call_shake_xof ==
  /\ phase = "absorbing"
  /\ \E outcome \in PadOutcomes(c) :
       IF outcome = "trap"
       THEN /\ phase' = "trapped"
            /\ UNCHANGED <<c, nperm, pre, sq0>>
       ELSE \E r \in {CSHAKE128_shake_xof(c)} :
                /\ c' = r.ctx
                /\ nperm' = nperm + r.np
                /\ pre' = r.pre
                /\ sq0' = r.ctx.st
                /\ phase' = "squeezing"
  /\ op' = "xof"
  /\ ret' = 0
  /\ UNCHANGED <<absorbed, md, out>>
  /\ UNCHANGED shim

\* A call of CSHAKE128_shake_read(&c, out, len).  The code has no guard: the call
\* is also made before xof, where it is outside the legal order.
Call_shake_read(len) ==
  /\ \/ /\ phase = "squeezing"
        /\ len \in 0..MaxReadLen
        /\ Len(out) + len <= (IF c.rsiz \in 1..200 THEN MaxRead ELSE 1)
     \/ /\ phase = "squeezing"
        /\ absorbed = <<>>
        /\ out = <<>>
        /\ len \in KatReads
     \/ /\ phase = "absorbing"
        /\ len \in EarlyReads
  /\ \E r \in {CSHAKE128_shake_read(c, len)} :
         /\ c' = r.ctx
         /\ out' = out \o r.out
         /\ nperm' = nperm + r.np
  /\ phase' = IF phase = "squeezing" THEN "squeezing" ELSE "misused"
  /\ op' = "read"
  /\ ret' = 0
  /\ UNCHANGED <<absorbed, md, pre, sq0>>
  /\ UNCHANGED shim

\* A call of the one-shot CSHAKE128_sha3(in, inlen, md, L), made while the caller
\* holds no context; the context it works on is its own local one.
Call_sha3(in, L) ==
  /\ phase = "none"
  /\ in \in Chunks
  /\ \E outcome \in PadOutcomes(CSHAKE128_sha3_update(CSHAKE128_sha3_init(L).ctx, in).ctx) :
       IF outcome = "trap"
       THEN /\ phase' = "trapped"
            /\ UNCHANGED <<ret, md>>
       ELSE /\ md' = CSHAKE128_sha3(in, L).md
            /\ ret' = 1
            /\ phase' = "oneshot"
  /\ op' = "sha3"
  /\ absorbed' = in
  /\ UNCHANGED <<c, out, nperm, pre, sq0>>
  /\ UNCHANGED shim

\* A call of CSHAKE128_shake128_init(&c), on a new context or on a used one.
Call_shake128_init ==
  /\ phase # "trapped"
  /\ \E r \in {CSHAKE128_shake128_init} :
         /\ c' = r.ctx
         /\ ret' = r.ret
  /\ phase' = "absorbing"
  /\ op' = "shake128_init"
  /\ absorbed' = <<>>
  /\ md' = <<>>
  /\ out' = <<>>
  /\ nperm' = 0
  /\ pre' = ZeroState
  /\ sq0' = ZeroState
  /\ UNCHANGED shim

\* A call of CSHAKE128_shake256_init(&c), on a new context or on a used one.
Call_shake256_init ==
  /\ phase # "trapped"
  /\ \E r \in {CSHAKE128_shake256_init} :
         /\ c' = r.ctx
         /\ ret' = r.ret
  /\ phase' = "absorbing"
  /\ op' = "shake256_init"
  /\ absorbed' = <<>>
  /\ md' = <<>>
  /\ out' = <<>>
  /\ nperm' = 0
  /\ pre' = ZeroState
  /\ sq0' = ZeroState
  /\ UNCHANGED shim

\* A call of CSHAKE128_shake_update(&c, data, len); like update it has no guard.
Call_shake_update(data) ==
  /\ c.mdlen \in ShakeUpdateLens
  /\ \/ /\ phase = "absorbing"
        /\ data \in Chunks
        /\ Len(absorbed) + Len(data) <= (IF c.rsiz \in 1..200 THEN MaxAbsorb ELSE 1)
     \/ /\ phase \in {"finalized", "squeezing"}
        /\ data \in LateChunks
  /\ \E r \in {CSHAKE128_shake_update(c, data)} :
         /\ c' = r.ctx
         /\ ret' = r.ret
         /\ nperm' = nperm + r.np
  /\ phase' = IF phase = "absorbing" THEN "absorbing" ELSE "misused"
  /\ op' = "shake_update"
  /\ absorbed' = absorbed \o data
  /\ UNCHANGED <<md, out, pre, sq0>>
  /\ UNCHANGED shim

Next ==
  \/ \E L \in Lens \cup InvalidLens : Call_sha3_init(L)
  \/ \E data \in Chunks \cup LateChunks : Call_sha3_update(data)
  \/ Call_sha3_final
  \/ Call_shake_xof
  \/ \E len \in (0..MaxReadLen) \cup KatReads : Call_shake_read(len)
  \/ \E in \in Chunks, L \in Lens \cup InvalidLens : Call_sha3(in, L)
  \/ Call_shake128_init
  \/ Call_shake256_init
  \/ \E data \in Chunks \cup LateChunks : Call_shake_update(data)

Spec == Init /\ [][Next]_vars

\* A call of one of the stream wrappers; libsodium returns result.
Call_STREAM(w, mlen, ic, result) ==
  /\ \E p \in {<<Addr.c, Addr.m, mlen, Addr.n, ic, Addr.k>>} :
       shim' = [wrapper |-> w, params |-> p, call |-> StreamCall(w, p),
                result |-> result, ret |-> result]
  /\ UNCHANGED <<c, phase, op, ret, absorbed, md, out, nperm, pre, sq0>>

\* A call of one of the AEAD encrypt wrappers; libsodium returns result.
Call_AEAD_enc(w, mlen, adlen, result) ==
  /\ \E p \in {<<Addr.c, Addr.clen_p, Addr.m, mlen, Addr.ad, adlen, Addr.nsec,
                  Addr.npub, Addr.k>>} :
       shim' = [wrapper |-> w, params |-> p, call |-> EncCall(w, p),
                result |-> result, ret |-> result]
  /\ UNCHANGED <<c, phase, op, ret, absorbed, md, out, nperm, pre, sq0>>

\* A call of one of the AEAD decrypt wrappers; libsodium returns result.
Call_AEAD_dec(w, clen, adlen, result) ==
  /\ \E p \in {<<Addr.m, Addr.mlen_p, Addr.nsec, Addr.c, clen, Addr.ad, adlen,
                  Addr.npub, Addr.k>>} :
       shim' = [wrapper |-> w, params |-> p, call |-> DecCall(w, p),
                result |-> result, ret |-> result]
  /\ UNCHANGED <<c, phase, op, ret, absorbed, md, out, nperm, pre, sq0>>

ShimNext ==
  \/ \E w \in StreamShims, mlen \in Lengths, ic \in Counters, result \in SodiumResults :
       Call_STREAM(w, mlen, ic, result)
  \/ \E w \in EncShims, mlen \in Lengths, adlen \in Lengths, result \in SodiumResults :
       Call_AEAD_enc(w, mlen, adlen, result)
  \/ \E w \in DecShims, clen \in Lengths, adlen \in Lengths, result \in SodiumResults :
       Call_AEAD_dec(w, clen, adlen, result)

\* The wrappers called in any order; they share no state with the sponge.
ShimSpec == Init /\ [][ShimNext]_vars

\* ------------------------------------------------------------- properties
\* The rate of c is one the data model allows.
ValidRate == c.rsiz \in 1..200

\* The calls made on c since its init were made in the legal order.
Legal == phase \in {"absorbing", "finalized", "squeezing"}

\* a ^ b on byte values
XorVal(a, b) == ByteVal(XOR64(ByteBits(a), ByteBits(b)))

\* The context one update with all of data gives on a fresh init(mdlen).
AbsorbedAtOnce(mdlen, data) ==
  CSHAKE128_sha3_update(CSHAKE128_sha3_init(mdlen).ctx, data).ctx

\* C1 - streaming equivalence of absorb: however the bytes absorbed since init
\* were split over update calls, the whole context (state, pt, rsiz, mdlen) is
\* the one a single update with their concatenation gives on a fresh context,
\* and the digest a following final writes is the digest of that context.
C1_StreamingEquivalence ==
  /\ phase = "absorbing" => c = AbsorbedAtOnce(c.mdlen, absorbed)
  /\ phase = "finalized" =>
       md = CSHAKE128_sha3_final(AbsorbedAtOnce(c.mdlen, absorbed)).md

\* More bytes than one update takes were absorbed across a block boundary, and
\* final has written the digest.
C1_Witness ==
  /\ phase = "finalized"
  /\ ValidRate
  /\ Len(absorbed) > MaxChunk
  /\ Len(absorbed) > c.rsiz

\* C2 - squeeze composability: the bytes delivered by all shake_read calls since
\* shake_xof, concatenated, are the bytes one shake_read of the total length
\* delivers on the context as shake_xof left it.
C2_SqueezeComposability ==
  phase = "squeezing" =>
    out = CSHAKE128_shake_read([c EXCEPT !.st = sq0, !.pt = 0], Len(out)).out

\* More bytes than one read takes were delivered, the stream ran over a block
\* boundary and the last read ended exactly on a multiple of the rate.
C2_Witness ==
  /\ phase = "squeezing"
  /\ op = "read"
  /\ ValidRate
  /\ Len(out) > MaxReadLen
  /\ Len(out) = 2 * c.rsiz
  /\ c.pt = c.rsiz

\* C3 as stated - position invariant: after init with a valid output length and
\* after every operation of a legal sequence, 0 <= pt < rsiz.
C3_PositionBelowRate ==
  (Legal /\ ValidRate) => (0 <= c.pt /\ c.pt < c.rsiz)

\* C3 as amended - after init with a valid output length and after every
\* operation of a legal sequence 0 <= pt <= rsiz, and pt = rsiz exactly when the
\* reads since shake_xof have delivered a positive multiple of the rate (the
\* permutation for the next block is left to the next read); in every other
\* state, so after init, update, final and shake_xof, pt < rsiz.
C3_PositionInvariant ==
  (Legal /\ ValidRate) =>
    /\ 0 <= c.pt
    /\ c.pt <= c.rsiz
    /\ c.pt = c.rsiz <=>
         (phase = "squeezing" /\ Len(out) > 0 /\ Len(out) % c.rsiz = 0)

\* A read has ended on the last byte of a block: the position equals the rate.
C3_Witness ==
  /\ phase = "squeezing"
  /\ op = "read"
  /\ ValidRate
  /\ c.pt = c.rsiz

\* C4 as stated - misuse rejection: an update issued after final or shake_xof
\* reports a failure (a return value other than the success value 1) and leaves
\* the state as it was, and a shake_read issued before shake_xof delivers no
\* byte and leaves the context as it was.
C4_MisuseRejected ==
  [][phase' = "misused" =>
       /\ c' = c
       /\ out' = out
       /\ op' = "update" => ret' # 1]_vars

\* The byte view of st with v XORed into byte p and w into byte q.
PaddedBytes(st, p, v, q, w) ==
  [k \in 0..199 |->
     XorVal(LoadByte(st, k), (IF k = p THEN v ELSE 0) + (IF k = q THEN w ELSE 0))]

\* The byte view of st.
ByteView(st) == [k \in 0..199 |-> LoadByte(st, k)]

\* C5 - fixed-digest finalize: on a context with position p and rate r, final
\* XORs 0x06 into byte p and 0x80 into byte r - 1 (0x86 when p = r - 1) and
\* alters no other byte, runs the permutation once on that state, writes as
\* digest exactly the first mdlen bytes of the permuted state, and returns 1.
C5_FixedFinalize ==
  [][(op' = "final" /\ phase' = "finalized" /\ ValidRate) =>
       /\ ByteView(pre') = PaddedBytes(c.st, c.pt, 6, c.rsiz - 1, 128)
       /\ nperm' = nperm + 1
       /\ c'.st = CSHAKE128_sha3_keccakf(pre')
       /\ DOMAIN md' = 1..c.mdlen
       /\ \A i \in 1..c.mdlen : md'[i] = LoadByte(c'.st, i - 1)
       /\ ret' = 1]_vars

\* final has run on a context whose position was the last byte of the block, so
\* that both padding bytes fell on the same byte.
C5_Witness ==
  /\ phase = "finalized"
  /\ ValidRate
  /\ Len(absorbed) > 0
  /\ c.pt = c.rsiz - 1
  /\ LoadByte(pre, c.pt) = 134

\* C6 - xof finalize: on a context with position p and rate r, shake_xof XORs
\* 0x1F into byte p and 0x80 into byte r - 1 and alters no other byte, runs the
\* permutation once on that state and leaves pt = 0; the state it permutes
\* differs from the one final permutes on the same context in byte p, by
\* 0x1F ^ 0x06, and in no other byte.
C6_XofFinalize ==
  [][(op' = "xof" /\ phase' = "squeezing" /\ ValidRate) =>
       /\ ByteView(pre') = PaddedBytes(c.st, c.pt, 31, c.rsiz - 1, 128)
       /\ ByteView(pre') =
            PaddedBytes(CSHAKE128_sha3_final(c).pre, c.pt, XorVal(31, 6), c.pt, 0)
       /\ nperm' = nperm + 1
       /\ c'.st = CSHAKE128_sha3_keccakf(pre')
       /\ c'.pt = 0]_vars

\* shake_xof has run on a context that had absorbed bytes and stood at a
\* position other than 0.
C6_Witness ==
  /\ phase = "squeezing"
  /\ op = "xof"
  /\ ValidRate
  /\ Len(absorbed) % c.rsiz > 0
  /\ c.pt = 0

\* The permutation applied n times to st.
RECURSIVE Permuted(_, _)
Permuted(st, n) ==
  IF n = 0 THEN st ELSE CSHAKE128_sha3_keccakf(Permuted(st, n - 1))

\* Bytes lo .. hi - 1 of the squeezed stream are bytes lo % rate ..  of block
\* state st, for a range lo .. hi - 1 that lies within one block.
BlockDelivered(st, lo, hi) ==
  \A k \in lo..(hi - 1) : out[k + 1] = LoadByte(st, k % c.rsiz)

\* C7 - squeeze stream content: for every k the k-th byte (from 0) delivered by
\* the shake_read calls since shake_xof is byte k mod rate of the post-xof state
\* permuted floor(k / rate) further times; so only bytes below the rate are
\* delivered.
C7_SqueezeStream ==
  (phase = "squeezing" /\ ValidRate) =>
    \A b \in 0..((Len(out) + c.rsiz - 1) \div c.rsiz - 1) :
       LET lo == b * c.rsiz
           hi == IF lo + c.rsiz < Len(out) THEN lo + c.rsiz ELSE Len(out)
       IN  BlockDelivered(Permuted(sq0, b), lo, hi)

\* The reads have delivered bytes of a second block.
C7_Witness ==
  /\ phase = "squeezing"
  /\ op = "read"
  /\ ValidRate
  /\ Len(out) > c.rsiz
  /\ out[c.rsiz + 1] = LoadByte(CSHAKE128_sha3_keccakf(sq0), 0)

\* st with the first n bytes of data XORed into its bytes 0 .. n - 1.
RECURSIVE BlockXored(_, _, _)
BlockXored(st, data, n) ==
  IF n = 0 THEN st ELSE XorByte(BlockXored(st, data, n - 1), n - 1, data[n])

\* C8 - block boundary of absorb: after n bytes absorbed on a fresh context, in
\* one update or several, the permutation has run floor(n / rate) times and
\* pt = n mod rate; rate bytes give the permuted first block with pt = 0, and
\* rate + 1 bytes give that state with the last byte XORed into byte 0, pt = 1.
C8_BlockBoundary ==
  (phase = "absorbing" /\ ValidRate) =>
    /\ nperm = Len(absorbed) \div c.rsiz
    /\ c.pt = Len(absorbed) % c.rsiz
    /\ Len(absorbed) = c.rsiz =>
         c.st = CSHAKE128_sha3_keccakf(BlockXored(ZeroState, absorbed, c.rsiz))
    /\ Len(absorbed) = c.rsiz + 1 =>
         /\ nperm = 1
         /\ c.pt = 1
         /\ c.st = XorByte(CSHAKE128_sha3_keccakf(BlockXored(ZeroState, absorbed, c.rsiz)),
                           0, absorbed[c.rsiz + 1])

\* Exactly rate + 1 bytes have been absorbed.
C8_Witness ==
  /\ phase = "absorbing"
  /\ op = "update"
  /\ ValidRate
  /\ Len(absorbed) = c.rsiz + 1
  /\ nperm = 1

\* The values of op that name an initialiser.
InitOps == {"init", "shake128_init", "shake256_init"}

\* The rates of section 3 of the data model, by output length.
RateOf(L) ==
  CASE L = 16 -> 168
    [] L = 28 -> 144
    [] L = 32 -> 136
    [] L = 48 -> 104
    [] L = 64 -> 72
    [] OTHER  -> 200 - 2 * L

\* C9 - rate invariant: init(L) yields 25 zero lanes, pt = 0, mdlen = L and
\* rsiz = 200 - 2L (16 gives 168, 28 gives 144, 32 gives 136, 48 gives 104,
\* 64 gives 72); no other operation changes rsiz or mdlen; so
\* rsiz = 200 - 2 * mdlen in every state of an initialised context.
C9_RateInvariant ==
  /\ [](op \notin {"none", "sha3"} => c.rsiz = 200 - 2 * c.mdlen)
  /\ [][\A L \in Lens \cup InvalidLens :
          Call_sha3_init(L) =>
            /\ c'.st = ZeroState
            /\ c'.pt = 0
            /\ c'.mdlen = L
            /\ c'.rsiz = RateOf(L)]_vars
  /\ [][op' \notin InitOps => (c'.rsiz = c.rsiz /\ c'.mdlen = c.mdlen)]_vars

\* Bytes were absorbed, shake_xof has run and bytes were read on a context of
\* output length 16, and its rate is still 168.
C9_Witness ==
  /\ phase = "squeezing"
  /\ op = "read"
  /\ Len(absorbed) > 0
  /\ Len(out) > 0
  /\ c.mdlen = 16
  /\ c.rsiz = 168

\* C10 as stated - an invalid output length is reported: an init with a length
\* L for which 200 - 2L is outside 1..200 returns a value other than the success
\* value 1, no later operation runs on such a context, and the one-shot
\* function writes no digest of such a length.
C10_InvalidLengthReported ==
  /\ (op \notin {"none", "sha3"} /\ ~ValidRate) => (op = "init" /\ ret # 1)
  /\ (op = "sha3" /\ phase = "oneshot") => (200 - 2 * Len(md)) \in 1..200

\* C11 - one-shot composition: the digest the call sequence init(L), update(s),
\* final leaves in md on a context is the digest the one-shot function writes
\* for the same input and L; and a one-shot call with a valid L writes the L
\* bytes that final writes on a fresh init(L) context updated with the input.
C11_OneShotComposition ==
  /\ (phase = "finalized" /\ ValidRate) =>
       md = CSHAKE128_sha3(absorbed, c.mdlen).md
  /\ (phase = "oneshot" /\ (200 - 2 * Len(md)) \in 1..200) =>
       md = CSHAKE128_sha3_final(AbsorbedAtOnce(Len(md), absorbed)).md

\* The one-shot function has written a 32-byte digest of a non-empty input.
C11_Witness ==
  /\ phase = "oneshot"
  /\ op = "sha3"
  /\ Len(absorbed) > 0
  /\ Len(md) = 32

\* C12 - endianness invariance: the permutation run through the big-endian
\* code path on the bytes of a state leaves the bytes the little-endian path
\* leaves; checked on the state every final and shake_xof permutes, so the
\* digest written is the first mdlen of those bytes on either host.
C12_EndiannessInvariance ==
  ((op = "final" /\ phase = "finalized") \/ (op = "xof" /\ phase = "squeezing")) =>
    \E mem \in {KeccakfBigEndian(ByteView(pre))} :
       /\ mem = ByteView(c.st)
       /\ op = "final" => \A i \in 1..c.mdlen : md[i] = mem[i - 1]

\* final has permuted a state that held absorbed bytes and the padding.
C12_Witness ==
  /\ op = "final"
  /\ phase = "finalized"
  /\ ValidRate
  /\ Len(absorbed) > 0
  /\ c.st = CSHAKE128_sha3_keccakf(pre)

\* The sixteen hexadecimal digits.
HexDigits ==
  <<"0", "1", "2", "3", "4", "5", "6", "7", "8", "9", "a", "b", "c", "d", "e", "f">>

\* The hex form of a byte sequence: two digits per byte, high nibble first.
HexOf(bytes) ==
  [k \in 1..(2 * Len(bytes)) |->
     IF k % 2 = 1 THEN HexDigits[(bytes[(k + 1) \div 2] \div 16) + 1]
     ELSE HexDigits[(bytes[k \div 2] % 16) + 1]]

\* The hex form given for SHA3-256 of the empty input: 63 digits.
Sha3_256_Empty_Stated ==
  <<"a", "7", "f", "f", "c", "6", "f", "8", "b", "f", "1", "e", "d", "7", "6", "6",
     "5", "1", "c", "1", "4", "7", "5", "6", "a", "0", "6", "1", "d", "6", "6", "2",
     "f", "5", "8", "0", "f", "f", "4", "d", "e", "4", "3", "b", "4", "9", "f", "a",
     "8", "2", "d", "8", "0", "a", "4", "b", "8", "0", "f", "8", "4", "3", "4">>

\* The hex form of SHA3-256 of the empty input: 64 digits.
Sha3_256_Empty ==
  <<"a", "7", "f", "f", "c", "6", "f", "8", "b", "f", "1", "e", "d", "7", "6", "6",
     "5", "1", "c", "1", "4", "7", "5", "6", "a", "0", "6", "1", "d", "6", "6", "2",
     "f", "5", "8", "0", "f", "f", "4", "d", "e", "4", "3", "b", "4", "9", "f", "a",
     "8", "2", "d", "8", "0", "a", "4", "b", "8", "0", "f", "8", "4", "3", "4", "a">>

\* The hex form of the first 16 bytes of SHAKE128 of the empty input.
Shake128_Empty_16 ==
  <<"7", "f", "9", "c", "2", "b", "a", "4", "e", "8", "8", "f", "8", "2", "7", "d",
     "6", "1", "6", "0", "4", "5", "5", "0", "7", "6", "0", "5", "8", "5", "3", "e">>

\* init(32) or shake256_init, then final, with nothing absorbed.
Sha3_256_OfEmpty ==
  phase = "finalized" /\ c.mdlen = 32 /\ absorbed = <<>>

\* shake128_init or init(16), then shake_xof and reads of 16 bytes in all, with
\* nothing absorbed.
Shake128_OfEmpty_16 ==
  phase = "squeezing" /\ c.mdlen = 16 /\ absorbed = <<>> /\ Len(out) = 16

\* C13 as stated - known answers: the digest of the empty input with output
\* length 32 has the hex form a7ffc6f8...80f8434 (63 digits), and SHAKE128 of
\* the empty input read for 16 bytes has 7f9c2ba4e88f827d616045507605853e.
C13_KnownAnswersAsStated ==
  /\ Sha3_256_OfEmpty => HexOf(md) = Sha3_256_Empty_Stated
  /\ Shake128_OfEmpty_16 => HexOf(out) = Shake128_Empty_16

\* C13 as amended - known answers: the digest of the empty input with output
\* length 32 has the 64-digit hex form a7ffc6f8...80f8434a, of which the stated
\* 63 digits are the first 63, and SHAKE128 of the empty input read for 16
\* bytes has 7f9c2ba4e88f827d616045507605853e.
C13_KnownAnswers ==
  /\ Sha3_256_OfEmpty =>
       /\ HexOf(md) = Sha3_256_Empty
       /\ SubSeq(HexOf(md), 1, 63) = Sha3_256_Empty_Stated
  /\ Shake128_OfEmpty_16 => HexOf(out) = Shake128_Empty_16

\* shake128_init, shake_xof and one read of 16 bytes have run on the empty
\* input.
C13_Witness ==
  /\ Shake128_OfEmpty_16
  /\ op = "read"
  /\ c.rsiz = 168
  /\ c.pt = 16

\* The bytes the last update call passed, as the step from absorbed to
\* absorbed' records them.
LastChunk == SubSeq(absorbed', Len(absorbed) + 1, Len(absorbed'))

\* C14 - the SHAKE initialisers are aliases: shake128_init leaves exactly the
\* context and return value of init with output length 16 (rate 168),
\* shake256_init those of init with output length 32 (rate 136), and
\* shake_update has on the context it is called on, for the bytes it is passed,
\* exactly the effect and return value of update.
C14_ShakeAliases ==
  /\ [](op = "shake128_init" =>
          /\ c = CSHAKE128_sha3_init(16).ctx
          /\ ret = CSHAKE128_sha3_init(16).ret
          /\ c.rsiz = 168)
  /\ [](op = "shake256_init" =>
          /\ c = CSHAKE128_sha3_init(32).ctx
          /\ ret = CSHAKE128_sha3_init(32).ret
          /\ c.rsiz = 136)
  /\ [][op' = "shake_update" =>
          \E r \in {CSHAKE128_sha3_update(c, LastChunk)} :
             /\ c' = r.ctx
             /\ ret' = r.ret
             /\ nperm' = nperm + r.np]_vars

\* shake_update has absorbed bytes on a context of output length 16.
C14_Witness ==
  /\ op = "shake_update"
  /\ phase = "absorbing"
  /\ c.mdlen = 16
  /\ c.rsiz = 168
  /\ c.pt > 0

\* The libsodium function each wrapper stands for.
Counterpart ==
  [STREAM_salsa20                  |-> "crypto_stream_salsa20_xor_ic",
   STREAM_chacha20                 |-> "crypto_stream_chacha20_xor_ic",
   STREAM_chacha20_ietf            |-> "crypto_stream_chacha20_ietf_xor_ic",
   STREAM_xchacha20                |-> "crypto_stream_xchacha20_xor_ic",
   AEAD_chacha20poly1305_enc       |-> "crypto_aead_chacha20poly1305_encrypt",
   AEAD_chacha20poly1305_dec       |-> "crypto_aead_chacha20poly1305_decrypt",
   AEAD_chacha20poly1305_ietf_enc  |-> "crypto_aead_chacha20poly1305_ietf_encrypt",
   AEAD_chacha20poly1305_ietf_dec  |-> "crypto_aead_chacha20poly1305_ietf_decrypt",
   AEAD_xchacha20poly1305_ietf_enc |-> "crypto_aead_xchacha20poly1305_ietf_encrypt",
   AEAD_xchacha20poly1305_ietf_dec |-> "crypto_aead_xchacha20poly1305_ietf_decrypt",
   AEAD_aes256gcm_enc              |-> "crypto_aead_aes256gcm_encrypt",
   AEAD_aes256gcm_dec              |-> "crypto_aead_aes256gcm_decrypt"]

\* C15 as stated - shim pass-through: every wrapper calls its libsodium
\* counterpart, passes each of its own parameters unchanged in the
\* corresponding argument position, and returns that call's result.
C15_ShimPassThrough ==
  shim # NoCall =>
    /\ shim.call.fn = Counterpart[shim.wrapper]
    /\ shim.call.args = shim.params
    /\ shim.ret = shim.result

\* The lane the i-th iteration (i = 1..24) of the Rho Pi loop takes its value
\* from: lane 1 first, then the lane the iteration before wrote.
CycleSource(i) == IF i = 1 THEN 1 ELSE keccakf_piln[i - 1]

\* An explicit Rho pass: every lane of the cycle rotated left by the offset of
\* the iteration that reads it, lane 0 not rotated.
RhoPass(st) ==
  [k \in 0..24 |->
     IF k = 0 THEN st[0]
     ELSE ROTL64(st[k], keccakf_rotc[CHOOSE i \in 1..24 : CycleSource(i) = k])]

\* An explicit Pi pass: lane keccakf_piln[i] takes the lane of its cycle
\* predecessor, lane 0 stays.
PiPass(st) ==
  [k \in 0..24 |->
     IF k = 0 THEN st[0]
     ELSE st[CycleSource(CHOOSE i \in 1..24 : keccakf_piln[i] = k)]]

\* The lanes the Rho Pi loop writes, in the order of its iterations.
RhoPiWrites == [i \in 1..24 |-> keccakf_piln[i]]

\* The Rho Pi loop, run on x, has written to every lane of the cycle the
\* rotated pre-step value of its predecessor, and equals Rho followed by Pi.
RhoPiFused(x) ==
  \E y \in {RhoPi(x)} :
     /\ y[0] = x[0]
     /\ \A i \in 1..24 :
          y[keccakf_piln[i]] = ROTL64(x[CycleSource(i)], keccakf_rotc[i])
     /\ y = PiPass(RhoPass(x))

\* RhoPiFused holds of the Rho Pi step of each of the rounds lo .. hi - 1 of the
\* permutation run on st.
RECURSIVE RhoPiFusedInRounds(_, _, _)
RhoPiFusedInRounds(st, lo, hi) ==
  IF hi <= lo THEN TRUE
  ELSE /\ RhoPiFused(Theta(st))
       /\ \E nxt \in {Round(st, lo)} : RhoPiFusedInRounds(nxt, lo + 1, hi)

\* C16 - fused Rho-Pi is a single 24-cycle: the loop writes each of the lanes
\* 1..24 exactly once and never lane 0, and in every round of the permutation
\* that final runs (on the empty input and on inputs of one byte, for every
\* output length) the value written to lane keccakf_piln[i] is the pre-step
\* value of the previous lane of the cycle (lane 1 for i = 0) rotated left by
\* keccakf_rotc[i], so that the step equals an explicit Rho pass followed by an
\* explicit Pi pass over the pre-step state.
C16_FusedRhoPi ==
  /\ \A k \in 1..24 : Cardinality({i \in 1..24 : RhoPiWrites[i] = k}) = 1
  /\ \A i \in 1..24 : RhoPiWrites[i] # 0
  /\ (op = "final" /\ phase = "finalized" /\ Len(absorbed) <= 1) =>
        RhoPiFusedInRounds(pre, 0, KECCAKF_ROUNDS)

\* final has run its permutation on a state in which lane 1, the head of the
\* cycle, is not empty, and the Rho Pi step of round 0 has moved lanes.
C16_Witness ==
  /\ op = "final"
  /\ phase = "finalized"
  /\ absorbed # <<>>
  /\ Theta(pre)[1] # {}
  /\ RhoPi(Theta(pre)) # Theta(pre)

\* Chi, run on x, has given every lane of every row the value computed from the
\* row as it was in x.
ChiFromOldRow(x) ==
  \E y \in {Chi(x)} :
     \A j \in {0, 5, 10, 15, 20} : \A i \in 0..4 :
        y[j + i] = XOR64(x[j + i],
                         AND64(NOT64(x[j + ((i + 1) % 5)]), x[j + ((i + 2) % 5)]))

\* Iota of round r, run on y, has changed lane 0 only, by the round constant.
IotaLaneZeroOnly(y, r) ==
  \E z \in {Iota(y, r)} :
     /\ \A k \in 1..24 : z[k] = y[k]
     /\ z[0] = XOR64(y[0], keccakf_rndc[r + 1])

\* ChiFromOldRow and IotaLaneZeroOnly hold of the Chi and Iota steps of each of
\* the rounds lo .. hi - 1 of the permutation run on st.
RECURSIVE ChiIotaInRounds(_, _, _)
ChiIotaInRounds(st, lo, hi) ==
  IF hi <= lo THEN TRUE
  ELSE \E x \in {RhoPi(Theta(st))} :
          /\ ChiFromOldRow(x)
          /\ \E y \in {Chi(x)} :
                /\ IotaLaneZeroOnly(y, lo)
                /\ \E nxt \in {Iota(y, lo)} : ChiIotaInRounds(nxt, lo + 1, hi)

\* C17 - Chi uses pre-step values: in every round of the permutation that
\* shake_xof runs (on the empty input and on inputs of one byte, for every
\* output length) and for every row of 5 lanes, lane i of the row after Chi is
\* old[i] XOR ((NOT old[(i+1) mod 5]) AND old[(i+2) mod 5]) for the row old as
\* it was before the Chi step, and the Iota step that follows changes lane 0
\* only.
C17_ChiPreStepValues ==
  (op = "xof" /\ phase = "squeezing" /\ Len(absorbed) <= 1) =>
    ChiIotaInRounds(pre, 0, KECCAKF_ROUNDS)

\* shake_xof has run its permutation on a state whose first row holds absorbed
\* bytes, and the Chi step of round 0 has changed that row.
C17_Witness ==
  /\ op = "xof"
  /\ phase = "squeezing"
  /\ absorbed # <<>>
  /\ \E x \in {RhoPi(Theta(pre))} : \E i \in 0..4 : Chi(x)[i] # x[i]

\* The indices of st.b that the loop of update uses for the bytes of data, on
\* the context ctx: the value of j at each "c->st.b[j++] ^= ...".
UpdateIndices(ctx, data) ==
  {UpdateLoop(ctx, data, k).j : k \in 0..(Len(data) - 1)}

\* The indices of st.b that the loop of shake_read uses for len bytes, on the
\* context ctx: the value of j at each "out[i] = c->st.b[j++]".
ReadIndices(ctx, len) == {ReadLoop(ctx, k).j - 1 : k \in 1..len}

\* The indices of st.b that the padding of final and shake_xof uses.
PadIndices(ctx) == {ctx.pt, ctx.rsiz - 1}

\* The indices of st.b, and of md, that the copy loop of final uses to write
\* the digest digest.
DigestIndices(digest) == {i - 1 : i \in DOMAIN digest}

\* C18 - state bounds safety: on a context of output length L with
\* 0 < 200 - 2L <= 200 and in a legal call sequence, every index that update,
\* final, shake_xof and shake_read use on st.b is within 0..199; the absorb,
\* padding and squeeze indices are within 0..rate-1 and the digest indices
\* within 0..L-1; no such call traps.
C18_StateBoundsSafety ==
  [][(Legal /\ Legal' /\ ValidRate /\ op' \notin InitOps) =>
       /\ op' \in {"update", "shake_update"} =>
            /\ UpdateIndices(c, LastChunk) \subseteq 0..(c.rsiz - 1)
            /\ UpdateIndices(c, LastChunk) \subseteq 0..199
       /\ op' \in {"final", "xof"} =>
            /\ PadIndices(c) \subseteq 0..(c.rsiz - 1)
            /\ PadIndices(c) \subseteq 0..199
       /\ op' = "final" =>
            /\ Len(md') = c.mdlen
            /\ DigestIndices(md') \subseteq 0..(c.mdlen - 1)
            /\ DigestIndices(md') \subseteq 0..199
       /\ op' = "read" =>
            /\ ReadIndices(c, Len(out') - Len(out)) \subseteq 0..(c.rsiz - 1)
            /\ ReadIndices(c, Len(out') - Len(out)) \subseteq 0..199]_vars
  /\ []((ValidRate /\ op \in {"final", "xof"}) => phase # "trapped")

\* On a context of rate 200, after an update, shake_xof has padded at index
\* 199, the last byte of the state, and a read has followed.
C18_Witness ==
  /\ phase = "squeezing"
  /\ op = "read"
  /\ c.rsiz = 200
  /\ Len(absorbed) >= 1
  /\ Len(out) >= 1
  /\ LoadByte(pre, 199) = 128

\* C19 - lazy permutation while squeezing: after shake_xof, reads of T > 0
\* bytes in all have run the permutation ceil(T / rate) - 1 times, none for
\* T <= rate; a read that ends on a block boundary leaves the position at the
\* rate and the state the last byte was copied from, the permutation not yet
\* run.  Update runs it as soon as the rate-th byte of a block is absorbed:
\* while absorbing n bytes in all it has run n div rate times and the position
\* is n mod rate.
C19_LazySqueeze ==
  /\ (phase = "absorbing" /\ ValidRate) =>
        /\ nperm = Len(absorbed) \div c.rsiz
        /\ c.pt = Len(absorbed) % c.rsiz
  /\ (phase = "squeezing" /\ ValidRate) =>
        /\ nperm - (Len(absorbed) \div c.rsiz) - 1 =
              IF Len(out) = 0 THEN 0 ELSE ((Len(out) + c.rsiz - 1) \div c.rsiz) - 1
        /\ (op = "read" /\ Len(out) > 0) =>
              /\ c.pt = ((Len(out) - 1) % c.rsiz) + 1
              /\ LoadByte(c.st, c.pt - 1) = out[Len(out)]

\* Reads of two full blocks in all have run the permutation once since
\* shake_xof, and the last read ended on the block boundary.
C19_Witness ==
  /\ phase = "squeezing"
  /\ op = "read"
  /\ ValidRate
  /\ Len(out) = 2 * c.rsiz
  /\ c.pt = c.rsiz
  /\ nperm = (Len(absorbed) \div c.rsiz) + 2

=============================================================================
